---- MODULE Spec2Model ----
(***************************************************************************)
(* Channel engine of the STM32 USB host driver                             *)
(* (embassy-stm32/src/usb/usb_host.rs): the endpoint-memory bump           *)
(* allocator, the channel-index bitmap, the buffer descriptor table, the   *)
(* per-direction transfer state machine, control transfers and the         *)
(* interrupt handler.                                                      *)
(*                                                                         *)
(* The file builds only for the 32-bit packet-memory variants (mod btable  *)
(* is compiled under usbram_32_1024 / usbram_32_2048), so USBRAM_ALIGN is  *)
(* 4; USBRAM_SIZE is taken for usbram_32_1024.  u16 arithmetic wraps       *)
(* modulo 2^16, as it does in a build without overflow checks.             *)
(***************************************************************************)
EXTENDS Integers, Sequences, FiniteSets, TLC

\* ---------------------------------------------------------------- constants

USB_MAX_PIPES == 8
EP_COUNT == 8
USBRAM_SIZE == 1024
USBRAM_ALIGN == 4
timeout_ms == 1000

U16 == 2 ^ 16

\* Stat (pac::usb::vals::Stat): the 2-bit status field of one direction.
DISABLED == 0
STALL == 1
NAK == 2
VALID == 3

Slots == 0 .. (EP_COUNT - 1)

\* ------------------------------------------------------------------- bounds

\* alloc_channel calls made in one run.
MaxAllocCalls == 8
\* Of these, the calls for an endpoint other than PlainEndpoint.
MaxOtherCalls == 2
\* Channels dropped in one run.
MaxDrops == 1

\* Endpoint descriptors handed to alloc_channel:
\* <<type, direction, max packet size>>.  The plain one fills the slots; the
\* others are a control endpoint, one that fits the free window exactly
\* (64 + 960 = USBRAM_SIZE), one whose OUT half no longer fits after its IN
\* half, and an OUT endpoint whose length makes the u16 sum wrap.
PlainEndpoint == <<"Bulk", "In", 8>>
OtherEndpoints ==
    {<<"Control", "InOut", 8>>, <<"Bulk", "In", 960>>,
     <<"Bulk", "InOut", 512>>, <<"Bulk", "Out", 65532>>}
DevAddrs == {1}

\* Transfers started in one run.
MaxOps == 1
\* Granularity of the clock, in ms: Instant::now() advances by this much.
TickMs == 1000

\* Caller buffer lengths of IN transfers, payload lengths of OUT transfers,
\* and the packet lengths a device answers an IN token with.
InBufLens == {0, 12, 16}
OutLens == {0, 5, 12}
RxLens == {0, 3, 8}
\* The endpoint the transfers run on: the control channel, max packet size 8.
XferEndpoint == <<"Control", "InOut", 8>>

\* ------------------------------------------------------------ bit arithmetic

RECURSIVE trailing_ones(_)
trailing_ones(x) ==
    IF x % 2 = 1 THEN 1 + trailing_ones(x \div 2) ELSE 0

RECURSIVE BitOr(_, _)
BitOr(a, b) ==
    IF a = 0 THEN b
    ELSE IF b = 0 THEN a
    ELSE (IF a % 2 = 1 \/ b % 2 = 1 THEN 1 ELSE 0) + 2 * BitOr(a \div 2, b \div 2)

RECURSIVE BitAnd(_, _)
BitAnd(a, b) ==
    IF a = 0 \/ b = 0 THEN 0
    ELSE (IF a % 2 = 1 /\ b % 2 = 1 THEN 1 ELSE 0) + 2 * BitAnd(a \div 2, b \div 2)

BitXor2(a, b) ==
    BitOr(a, b) - BitAnd(a, b)

TestBit(x, i) ==
    (x \div (2 ^ i)) % 2 = 1

\* -------------------------------------------------- buffer descriptor codec

align_len_up(len) ==
    (((len + USBRAM_ALIGN - 1) \div USBRAM_ALIGN) * USBRAM_ALIGN) % U16

\* A codec whose large-block count is not reduced by one.
calc_receive_len_bits_count_not_reduced(len) ==
    IF len >= 2 /\ len <= 60
    THEN [panic |-> FALSE,
          len |-> align_len_up(len),
          bits |-> ((align_len_up(len) \div 2) * 2 ^ 10) % U16]
    ELSE IF len >= 61 /\ len <= 1024
    THEN [panic |-> FALSE,
          len |-> (((len + 31) \div 32) * 32) % U16,
          bits |-> BitOr((((len + 31) \div 32) * 2 ^ 10) % U16, 32768)]
    ELSE [panic |-> TRUE, len |-> 0, bits |-> 0]

\* (actual_len, len_bits), or a panic for a length outside 2..=1024.
calc_receive_len_bits(len) ==
    IF len >= 2 /\ len <= 60
    THEN [panic |-> FALSE,
          len |-> align_len_up(len),
          bits |-> ((align_len_up(len) \div 2) * 2 ^ 10) % U16]
    ELSE IF len >= 61 /\ len <= 1024
    THEN [panic |-> FALSE,
          len |-> (((len + 31) \div 32) * 32) % U16,
          bits |-> BitOr(((((len + 31) \div 32) - 1) * 2 ^ 10) % U16, 32768)]
    ELSE [panic |-> TRUE, len |-> 0, bits |-> 0]

\* The 32-bit descriptor words of one slot, each held as its two 16-bit
\* halves: tx = addr | len << 16, rx = addr | max_len_bits << 16.
write_transmit_buffer_descriptor(bt, index, addr, len) ==
    [bt EXCEPT ![index].tx = [lo |-> addr % U16, hi |-> len % U16]]

write_receive_buffer_descriptor(bt, index, addr, max_len_bits) ==
    [bt EXCEPT ![index].rx = [lo |-> addr % U16, hi |-> max_len_bits % U16]]

read_out_len(bt, index) ==
    bt[index].rx.hi

\* ------------------------------------------------------- endpoint registers

convert_type(t) ==
    CASE t = "Bulk" -> "BULK"
      [] t = "Control" -> "CONTROL"
      [] t = "Interrupt" -> "INTERRUPT"
      [] t = "Isochronous" -> "ISO"

\* The register image built before every write: writing it as it stands
\* clears no completion flag and toggles nothing.
invariant(r) ==
    [r EXCEPT !.ctr_rx = TRUE, !.ctr_tx = TRUE,
              !.dtog_rx = FALSE, !.dtog_tx = FALSE,
              !.stat_rx = 0, !.stat_tx = 0]

\* What the peripheral makes of a write of image w to a register holding cur:
\* status and toggle bits flip where w holds a 1, completion and error flags
\* are cleared by a 0 and kept by a 1, the other fields are stored.
EprWrite(cur, w) ==
    [stat_rx |-> BitXor2(cur.stat_rx, w.stat_rx),
     stat_tx |-> BitXor2(cur.stat_tx, w.stat_tx),
     dtog_rx |-> (cur.dtog_rx # w.dtog_rx),
     dtog_tx |-> (cur.dtog_tx # w.dtog_tx),
     ctr_rx |-> (cur.ctr_rx /\ w.ctr_rx),
     ctr_tx |-> (cur.ctr_tx /\ w.ctr_tx),
     err_rx |-> (cur.err_rx /\ w.err_rx),
     err_tx |-> (cur.err_tx /\ w.err_tx),
     setup |-> w.setup,
     devaddr |-> w.devaddr,
     ep_type |-> w.ep_type,
     ea |-> w.ea]

EprReset ==
    [stat_rx |-> DISABLED, stat_tx |-> DISABLED,
     dtog_rx |-> FALSE, dtog_tx |-> FALSE,
     ctr_rx |-> FALSE, ctr_tx |-> FALSE,
     err_rx |-> FALSE, err_tx |-> FALSE,
     setup |-> FALSE, devaddr |-> 0, ep_type |-> "BULK", ea |-> 0]

\* A retarget that writes back the register as it read it, new fields set.
retarget_channel_raw_image(regs, index, addr, eptype) ==
    [regs EXCEPT ![index] =
        EprWrite(regs[index],
                 [regs[index] EXCEPT !.devaddr = addr,
                                     !.ep_type = convert_type(eptype),
                                     !.ea = index])]

\* Channel::retarget_channel: one write of the slot's register.
retarget_channel(regs, index, addr, eptype) ==
    [regs EXCEPT ![index] =
        EprWrite(regs[index],
                 [invariant(regs[index]) EXCEPT !.devaddr = addr,
                                                !.ep_type = convert_type(eptype),
                                                !.ea = index])]

\* ------------------------------------------------------- channel allocation

NoBuffer == [some |-> FALSE, addr |-> 0, len |-> 0]

EndpointBuffer_new(addr, len) ==
    [some |-> TRUE, addr |-> addr, len |-> len]

Channel_new(index, buf_in, buf_out, max_packet_size_in, max_packet_size_out) ==
    [index |-> index,
     max_packet_size_in |-> max_packet_size_in,
     max_packet_size_out |-> max_packet_size_out,
     buf_in |-> buf_in,
     buf_out |-> buf_out]

is_in(D) == D \in {"In", "InOut"}

is_out(D) == D \in {"Out", "InOut"}

\* UsbHost::alloc_channel_mem on free offset `free`: Err(()) or Ok(addr) and
\* the offset stored.  Both operands are u16, and so is their sum.
alloc_channel_mem(free, len) ==
    IF (free + len) % U16 > USBRAM_SIZE
    THEN [ok |-> FALSE, addr |-> 0, free |-> free]
    ELSE [ok |-> TRUE, addr |-> free, free |-> (free + len) % U16]

\* alloc_index with bit 0 not masked out of the scan.
alloc_index_scan_from_zero(pipes, T) ==
    IF T = "Control"
    THEN [ok |-> TRUE, index |-> 0, pipes |-> pipes]
    ELSE LET new_index == trailing_ones(pipes)
         IN IF new_index >= USB_MAX_PIPES
            THEN [ok |-> FALSE, index |-> new_index, pipes |-> pipes]
            ELSE [ok |-> TRUE, index |-> new_index,
                  pipes |-> BitOr(pipes, 2 ^ new_index)]

\* The slot-index half of alloc_channel: 0 for a control endpoint, otherwise
\* the lowest clear bit above bit 0, which is then stored as set.
alloc_index(pipes, T) ==
    IF T = "Control"
    THEN [ok |-> TRUE, index |-> 0, pipes |-> pipes]
    ELSE LET new_index == trailing_ones(BitOr(pipes, 1))
         IN IF new_index >= USB_MAX_PIPES
            THEN [ok |-> FALSE, index |-> new_index, pipes |-> pipes]
            ELSE [ok |-> TRUE, index |-> new_index,
                  pipes |-> BitOr(pipes, 2 ^ new_index)]


\* ---------------------------------------------------------- endpoint buffers

MemRead(mem, a) ==
    IF a \in DOMAIN mem THEN mem[a] ELSE 0

\* EndpointBuffer::write: panics when the data is longer than the buffer,
\* otherwise stores it word by word, the last word padded with zeros.
EndpointBuffer_write(mem, b, data) ==
    IF Len(data) > b.len
    THEN [panic |-> TRUE, mem |-> mem]
    ELSE LET base == (b.addr \div USBRAM_ALIGN) * USBRAM_ALIGN
             nwords == (Len(data) + USBRAM_ALIGN - 1) \div USBRAM_ALIGN
             touched == {base + k : k \in 0 .. (nwords * USBRAM_ALIGN - 1)}
         IN [panic |-> FALSE,
             mem |-> [a \in DOMAIN mem \cup touched |->
                        IF a \in touched
                        THEN (IF a - base < Len(data) THEN data[a - base + 1] ELSE 0)
                        ELSE mem[a]]]

\* EndpointBuffer::read of n bytes: panics when n exceeds the buffer.
EndpointBuffer_read(mem, b, n) ==
    IF n > b.len
    THEN [panic |-> TRUE, data |-> <<>>]
    ELSE LET base == (b.addr \div USBRAM_ALIGN) * USBRAM_ALIGN
         IN [panic |-> FALSE, data |-> [k \in 1 .. n |-> MemRead(mem, base + k - 1)]]

\* ------------------------------------------------ activating and disabling

\* An image that asks for VALID by writing VALID instead of the bits to flip.
stat_image_writes_target(fn, e) ==
    CASE fn = "activate_rx" -> [invariant(e) EXCEPT !.stat_rx = VALID]
      [] fn = "activate_tx" -> [invariant(e) EXCEPT !.stat_tx = VALID]
      [] fn = "disable_rx" -> [invariant(e) EXCEPT !.stat_rx = DISABLED]
      [] fn = "disable_tx" -> [invariant(e) EXCEPT !.stat_tx = DISABLED]

\* The image activate_rx / activate_tx / disable_rx / disable_tx writes for a
\* register read as e: !current & 0x3 to reach VALID, current to reach
\* DISABLED, in the direction's status field of the invariant image.
stat_image(fn, e) ==
    CASE fn = "activate_rx" ->
            [invariant(e) EXCEPT !.stat_rx = BitAnd(BitXor2(e.stat_rx, 3), 3)]
      [] fn = "activate_tx" ->
            [invariant(e) EXCEPT !.stat_tx = BitAnd(BitXor2(e.stat_tx, 3), 3)]
      [] fn = "disable_rx" -> [invariant(e) EXCEPT !.stat_rx = e.stat_rx]
      [] fn = "disable_tx" -> [invariant(e) EXCEPT !.stat_tx = e.stat_tx]

activate_rx(regs, index) ==
    [regs EXCEPT ![index] = EprWrite(regs[index], stat_image("activate_rx", regs[index]))]

activate_tx(regs, index) ==
    [regs EXCEPT ![index] = EprWrite(regs[index], stat_image("activate_tx", regs[index]))]

disable_rx(regs, index) ==
    [regs EXCEPT ![index] = EprWrite(regs[index], stat_image("disable_rx", regs[index]))]

disable_tx(regs, index) ==
    [regs EXCEPT ![index] = EprWrite(regs[index], stat_image("disable_tx", regs[index]))]

\* control_in / control_out, setup stage: the setup flag of slot 0.
set_setup(regs) ==
    [regs EXCEPT ![0] = EprWrite(regs[0], [invariant(regs[0]) EXCEPT !.setup = TRUE])]

\* ------------------------------------------------------ classifying a poll

\* A poll closure that looks at the deadline before the connection status.
write_poll_deadline_first(dcon_stat, elapsed_ms, stat) ==
    IF elapsed_ms > timeout_ms THEN "Timeout"
    ELSE IF ~dcon_stat THEN "Disconnected"
    ELSE IF stat = DISABLED THEN "Ok"
    ELSE IF stat = STALL THEN "Stall"
    ELSE "Pending"

\* A poll closure that keeps waiting on STALL.
write_poll_stall_pending(dcon_stat, elapsed_ms, stat) ==
    IF ~dcon_stat THEN "Disconnected"
    ELSE IF elapsed_ms > timeout_ms THEN "Timeout"
    ELSE IF stat = DISABLED THEN "Ok"
    ELSE "Pending"

\* The poll closure of Channel::write, after the waker is registered:
\* disconnect first, then the deadline, then the status field.
write_poll(dcon_stat, elapsed_ms, stat) ==
    IF ~dcon_stat THEN "Disconnected"
    ELSE IF elapsed_ms > timeout_ms THEN "Timeout"
    ELSE IF stat = DISABLED THEN "Ok"
    ELSE IF stat = STALL THEN "Stall"
    ELSE "Pending"

\* The poll closure of Channel::read: the same, with DISABLED meaning that a
\* packet is there to be read.
read_poll(dcon_stat, elapsed_ms, stat) ==
    IF ~dcon_stat THEN "Disconnected"
    ELSE IF elapsed_ms > timeout_ms THEN "Timeout"
    ELSE IF stat = DISABLED THEN "Data"
    ELSE IF stat = STALL THEN "Stall"
    ELSE "Pending"

\* A read that ends with its first packet.
read_done_single_packet(count, buflen, n, max_packet_size_in) ==
    TRUE

\* A read that ends only when the caller's buffer is full.
read_done_full_buffer_only(count, buflen, n, max_packet_size_in) ==
    count = buflen

\* Whether Channel::read is done after a packet of n bytes brought the
\* count of bytes read to `count`.
read_done(count, buflen, n, max_packet_size_in) ==
    count = buflen \/ n < max_packet_size_in

\* --------------------------------------------------------- control transfers

SetupPacketLen == 8

\* A control_in without its status stage.
NextStage_no_status(kind, stage, res, len) ==
    IF res # "Ok" THEN [pc |-> "done", stage |-> stage, xlen |-> 0]
    ELSE IF kind = "control_in" /\ stage = "setup"
    THEN [pc |-> "read_begin", stage |-> "data", xlen |-> len]
    ELSE IF kind = "control_out" /\ stage = "setup"
    THEN (IF len = 0
          THEN [pc |-> "read_begin", stage |-> "status", xlen |-> 0]
          ELSE [pc |-> "write_begin", stage |-> "data", xlen |-> len])
    ELSE IF kind = "control_out" /\ stage = "data"
    THEN [pc |-> "read_begin", stage |-> "status", xlen |-> 0]
    ELSE [pc |-> "done", stage |-> stage, xlen |-> 0]

\* Control transfers that go on to the next stage whatever the last returned.
NextStage_ignore_errors(kind, stage, res, len) ==
    IF kind = "control_in" /\ stage = "setup"
    THEN [pc |-> "read_begin", stage |-> "data", xlen |-> len]
    ELSE IF kind = "control_in" /\ stage = "data"
    THEN [pc |-> "write_begin", stage |-> "status", xlen |-> 0]
    ELSE IF kind = "control_out" /\ stage = "setup"
    THEN (IF len = 0
          THEN [pc |-> "read_begin", stage |-> "status", xlen |-> 0]
          ELSE [pc |-> "write_begin", stage |-> "data", xlen |-> len])
    ELSE IF kind = "control_out" /\ stage = "data"
    THEN [pc |-> "read_begin", stage |-> "status", xlen |-> 0]
    ELSE [pc |-> "done", stage |-> stage, xlen |-> 0]

\* A control_out that runs its data stage for an empty payload too.
NextStage_always_data(kind, stage, res, len) ==
    IF res # "Ok" THEN [pc |-> "done", stage |-> stage, xlen |-> 0]
    ELSE IF kind = "control_in" /\ stage = "setup"
    THEN [pc |-> "read_begin", stage |-> "data", xlen |-> len]
    ELSE IF kind = "control_in" /\ stage = "data"
    THEN [pc |-> "write_begin", stage |-> "status", xlen |-> 0]
    ELSE IF kind = "control_out" /\ stage = "setup"
    THEN [pc |-> "write_begin", stage |-> "data", xlen |-> len]
    ELSE IF kind = "control_out" /\ stage = "data"
    THEN [pc |-> "read_begin", stage |-> "status", xlen |-> 0]
    ELSE [pc |-> "done", stage |-> stage, xlen |-> 0]

\* What follows a stage of a transfer that ended with `res` ("Ok" or an
\* error): the next transfer to begin, or the end of the call.  `len` is
\* the length of the caller's buffer.
NextStage(kind, stage, res, len) ==
    IF res # "Ok" THEN [pc |-> "done", stage |-> stage, xlen |-> 0]
    ELSE IF kind = "control_in" /\ stage = "setup"
    THEN [pc |-> "read_begin", stage |-> "data", xlen |-> len]
    ELSE IF kind = "control_in" /\ stage = "data"
    THEN [pc |-> "write_begin", stage |-> "status", xlen |-> 0]
    ELSE IF kind = "control_out" /\ stage = "setup"
    THEN (IF len = 0
          THEN [pc |-> "read_begin", stage |-> "status", xlen |-> 0]
          ELSE [pc |-> "write_begin", stage |-> "data", xlen |-> len])
    ELSE IF kind = "control_out" /\ stage = "data"
    THEN [pc |-> "read_begin", stage |-> "status", xlen |-> 0]
    ELSE [pc |-> "done", stage |-> stage, xlen |-> 0]

\* The bytes an OUT transfer sends: the caller's data, byte k of it.
OutData(n) ==
    [k \in 1 .. n |-> 160 + k]

\* The bytes of a packet of n bytes sent by the device.
DevData(n) ==
    [k \in 1 .. n |-> 16 * n + k]

\* -------------------------------------------------------------------- state

VARIABLES
    ALLOCATED_PIPES,  \* static AtomicU32: bitmap of the slots handed out
    EP_MEM_FREE,      \* static AtomicU16: first free byte of endpoint memory
    epr,              \* the peripheral's endpoint registers, one per slot
    btable,           \* the buffer descriptor table: tx and rx word per slot
    channels,         \* the Channel values that are alive
    granted,          \* every range alloc_channel_mem has returned, in order
    alloc_ret,        \* what the last alloc_channel call returned
    ncalls,           \* alloc_channel calls made
    nother,           \* of these, calls for an endpoint other than PlainEndpoint
    ndrops,           \* channels dropped
    usbram,           \* packet memory: byte address -> byte (0 where never written)
    istr,             \* the interrupt status register
    in_wakers,        \* slots whose EP_IN_WAKERS entry holds the task's waker
    out_wakers,       \* slots whose EP_OUT_WAKERS entry holds the task's waker
    bus_waker,        \* whether BUS_WAKER holds the task's waker
    task_woken,       \* whether the task has been woken since its last poll
    op,               \* the call the task is in and where it stands
    buf,              \* the caller's buffer of an IN transfer
    elapsed,          \* t0.elapsed() of the transfer in flight, in ms
    log,              \* the hardware actions of the current call, in order
    obs,              \* what the last poll of the current transfer read
    nops,             \* calls started
    call              \* the last operation applied on its own, and what it was applied to

allocVars == <<ALLOCATED_PIPES, EP_MEM_FREE, channels, granted, alloc_ret, ncalls, nother, ndrops>>

regVars == <<epr, btable>>

hwVars == <<usbram, istr>>

wakerVars == <<in_wakers, out_wakers, bus_waker, task_woken>>

opVars == <<op, buf, elapsed, log, obs, nops>>

xferVars == <<hwVars, wakerVars, opVars>>

vars == <<allocVars, regVars, xferVars, call>>

\* The allocation state as one value, so that alloc_channel is a function of it.
AllocState ==
    [pipes |-> ALLOCATED_PIPES, free |-> EP_MEM_FREE, epr |-> epr, btable |-> btable,
     channels |-> channels, granted |-> granted, ret |-> alloc_ret]

\* alloc_channel's return value, with what the call found when it began
\* (the bitmap, the free offset, the slots of the live channels) and the
\* alloc_channel_mem request it was refused, if any.
NoReturn ==
    [status |-> "None", index |-> 0, T |-> "None",
     buf_in |-> NoBuffer, buf_out |-> NoBuffer,
     pipes_before |-> 0, free_before |-> 0, held_before |-> {},
     denied |-> <<>>]

\* UsbHost::new: the free offset starts after the descriptor table
\* (EP_COUNT entries of 8 bytes); the statics start at 0.
NewState ==
    [pipes |-> 0, free |-> EP_COUNT * 8,
     epr |-> [i \in Slots |-> EprReset],
     btable |-> [i \in Slots |-> [tx |-> [lo |-> 0, hi |-> 0], rx |-> [lo |-> 0, hi |-> 0]]],
     channels |-> {}, granted |-> <<>>, ret |-> NoReturn]

\* UsbHostDriver::alloc_channel::<T, D>(addr, endpoint) with
\* endpoint.max_packet_size = mps, as a function of the allocation state.
alloc_channel(st, T, D, addr, mps) ==
    LET ix == alloc_index(st.pipes, T)
        ret0 == [status |-> "Ok", index |-> ix.index, T |-> T,
                 buf_in |-> NoBuffer, buf_out |-> NoBuffer,
                 pipes_before |-> st.pipes, free_before |-> st.free,
                 held_before |-> {c.index : c \in st.channels},
                 denied |-> <<>>]
        rl == calc_receive_len_bits(mps)
        m_in == alloc_channel_mem(st.free, rl.len)
        free1 == IF is_in(D) THEN m_in.free ELSE st.free
        bt1 == IF is_in(D)
               THEN write_receive_buffer_descriptor(st.btable, ix.index, m_in.addr, rl.bits)
               ELSE st.btable
        buffer_in == IF is_in(D) THEN EndpointBuffer_new(m_in.addr, rl.len) ELSE NoBuffer
        g1 == IF is_in(D) THEN Append(st.granted, <<m_in.addr, rl.len>>) ELSE st.granted
        len_out == align_len_up(mps)
        m_out == alloc_channel_mem(free1, len_out)
        buffer_out == IF is_out(D) THEN EndpointBuffer_new(m_out.addr, len_out) ELSE NoBuffer
        free2 == IF is_out(D) THEN m_out.free ELSE free1
        g2 == IF is_out(D) THEN Append(g1, <<m_out.addr, len_out>>) ELSE g1
        channel == Channel_new(ix.index, buffer_in, buffer_out, mps, mps)
    IN  IF ~ix.ok
        THEN [st EXCEPT !.ret = [ret0 EXCEPT !.status = "OutOfChannels"]]
        ELSE IF is_in(D) /\ rl.panic
        THEN [st EXCEPT !.pipes = ix.pipes,
                        !.ret = [ret0 EXCEPT !.status = "Panic"]]
        ELSE IF is_in(D) /\ ~m_in.ok
        THEN [st EXCEPT !.pipes = ix.pipes,
                        !.ret = [ret0 EXCEPT !.status = "OutOfSlots",
                                             !.denied = <<st.free, rl.len>>]]
        ELSE IF is_out(D) /\ ~m_out.ok
        THEN [st EXCEPT !.pipes = ix.pipes, !.free = free1, !.btable = bt1,
                        !.granted = g1,
                        !.ret = [ret0 EXCEPT !.status = "OutOfSlots",
                                             !.buf_in = buffer_in,
                                             !.denied = <<free1, len_out>>]]
        ELSE [pipes |-> ix.pipes, free |-> free2,
              epr |-> retarget_channel(st.epr, ix.index, addr, T),
              btable |-> bt1,
              channels |-> st.channels \cup {channel},
              granted |-> g2,
              ret |-> [ret0 EXCEPT !.buf_in = buffer_in, !.buf_out = buffer_out]]

\* -------------------------------------------------------------------- actions

NoResult == [ok |-> FALSE, n |-> 0, err |-> "None"]

NoObs ==
    [dir |-> "none", dcon_stat |-> TRUE, elapsed |-> 0, stat |-> 0,
     rx_len |-> 0, count |-> 0, class |-> "None"]

IdleOp ==
    [kind |-> "none", len |-> 0, stage |-> "none", pc |-> "idle", dir |-> "none",
     xlen |-> 0, count |-> 0, data_count |-> 0, result |-> NoResult,
     ch |-> Channel_new(0, NoBuffer, NoBuffer, 0, 0)]

\* No operation has been applied on its own.
NoCall == [fn |-> "none"]

\* No transfer has been started; a device is attached (full speed) and its
\* connection has been handled.
XferIdle ==
    /\ usbram = <<>>
    /\ istr = [reset |-> FALSE, err |-> FALSE, dcon_stat |-> TRUE,
               ls_dcon |-> FALSE, ep_id |-> 0]
    /\ in_wakers = {}
    /\ out_wakers = {}
    /\ bus_waker = FALSE
    /\ task_woken = FALSE
    /\ op = IdleOp
    /\ buf = <<>>
    /\ elapsed = 0
    /\ log = <<>>
    /\ obs = NoObs
    /\ nops = 0
    /\ call = NoCall

Init ==
    /\ XferIdle
    /\ ALLOCATED_PIPES = NewState.pipes
    /\ EP_MEM_FREE = NewState.free
    /\ epr = NewState.epr
    /\ btable = NewState.btable
    /\ channels = NewState.channels
    /\ granted = NewState.granted
    /\ alloc_ret = NewState.ret
    /\ ncalls = 0
    /\ nother = 0
    /\ ndrops = 0

AllocChannel(T, D, addr, mps) ==
    /\ alloc_ret.status # "Panic"
    /\ ncalls < MaxAllocCalls
    /\ <<T, D, mps>> # PlainEndpoint => nother < MaxOtherCalls
    /\ nother' = IF <<T, D, mps>> # PlainEndpoint THEN nother + 1 ELSE nother
    /\ LET st == alloc_channel(AllocState, T, D, addr, mps)
       IN /\ ALLOCATED_PIPES' = st.pipes
          /\ EP_MEM_FREE' = st.free
          /\ epr' = st.epr
          /\ btable' = st.btable
          /\ channels' = st.channels
          /\ granted' = st.granted
          /\ alloc_ret' = st.ret
    /\ ncalls' = ncalls + 1
    /\ UNCHANGED <<ndrops, xferVars, call>>

\* A Channel going out of scope.  Channel has no Drop impl: nothing but the
\* value itself goes away.
DropChannel(c) ==
    /\ alloc_ret.status # "Panic"
    /\ ndrops < MaxDrops
    /\ c \in channels
    /\ channels' = channels \ {c}
    /\ ndrops' = ndrops + 1
    /\ UNCHANGED <<call, ALLOCATED_PIPES, EP_MEM_FREE, granted, alloc_ret, ncalls, nother,
                   regVars, xferVars>>

NextAlloc ==
    \/ \E e \in {PlainEndpoint} \cup OtherEndpoints, a \in DevAddrs :
          AllocChannel(e[1], e[2], a, e[3])
    \/ \E c \in channels : DropChannel(c)

SpecAlloc == Init /\ [][NextAlloc]_vars

\* --------------------------------------------------------------- transfers

\* The state a transfer run starts from: the driver constructed and the
\* control channel allocated.
InitXfer ==
    /\ XferIdle
    /\ LET st == alloc_channel(NewState, XferEndpoint[1], XferEndpoint[2], 1, XferEndpoint[3])
       IN /\ ALLOCATED_PIPES = st.pipes
          /\ EP_MEM_FREE = st.free
          /\ epr = st.epr
          /\ btable = st.btable
          /\ channels = st.channels
          /\ granted = st.granted
          /\ alloc_ret = st.ret
    /\ ncalls = 1
    /\ nother = 1
    /\ ndrops = 0

InKinds == {"control_in", "request_in"}

ControlKinds == {"control_in", "control_out"}

InFlight == op.pc \in {"poll_reg", "poll_check", "pending"}

\* The status field of the direction the current transfer uses.
DirStat(regs) ==
    IF op.dir = "out" THEN regs[op.ch.index].stat_tx ELSE regs[op.ch.index].stat_rx

\* A call of control_in, control_out, request_in or request_out on channel c
\* with a caller buffer of `len` bytes begins.
StartOp(c, kind, len) ==
    /\ op.pc \in {"idle", "done"}
    /\ nops < MaxOps
    /\ c \in channels
    /\ len \in (IF kind \in InKinds THEN InBufLens ELSE OutLens)
    /\ op' = [kind |-> kind, len |-> len,
              stage |-> IF kind \in ControlKinds THEN "setup" ELSE "data",
              pc |-> IF kind \in ControlKinds THEN "setup_flag"
                     ELSE IF kind = "request_in" THEN "read_begin" ELSE "write_begin",
              dir |-> "none",
              xlen |-> IF kind \in ControlKinds THEN SetupPacketLen ELSE len,
              count |-> 0, data_count |-> 0, result |-> NoResult, ch |-> c]
    /\ buf' = [k \in 1 .. (IF kind \in InKinds THEN len ELSE 0) |-> 0]
    /\ elapsed' = 0
    /\ log' = <<>>
    /\ obs' = NoObs
    /\ nops' = nops + 1
    /\ UNCHANGED <<call, allocVars, regVars, hwVars, wakerVars>>

\* control_in / control_out: the write of the setup flag.
ControlSetupFlag ==
    /\ op.pc = "setup_flag"
    /\ epr' = set_setup(epr)
    /\ log' = Append(log, [ev |-> "setup_flag", stage |-> "setup", len |-> 0,
                           armed |-> epr'[0].setup, res |-> "Ok", n |-> 0])
    /\ op' = [op EXCEPT !.pc = "write_begin"]
    /\ UNCHANGED <<call, allocVars, btable, hwVars, wakerVars, buf, elapsed, obs, nops>>

\* Channel::write up to its first poll: write_data, activate_tx, t0.
WriteBegin ==
    /\ op.pc = "write_begin"
    /\ LET c == op.ch
           data == OutData(op.xlen)
           w == EndpointBuffer_write(usbram, c.buf_out, data)
       IN IF c.buf_out.some /\ w.panic
          THEN /\ op' = [op EXCEPT !.pc = "panicked", !.dir = "out"]
               /\ UNCHANGED <<epr, btable, usbram, log>>
          ELSE /\ usbram' = IF c.buf_out.some THEN w.mem ELSE usbram
               /\ btable' = IF c.buf_out.some
                            THEN write_transmit_buffer_descriptor(
                                     btable, c.index, c.buf_out.addr, Len(data))
                            ELSE btable
               /\ epr' = activate_tx(epr, c.index)
               /\ log' = Append(log, [ev |-> "OUT", stage |-> op.stage,
                                      len |-> btable'[c.index].tx.hi,
                                      armed |-> (epr'[c.index].stat_tx = VALID),
                                      res |-> "Pending", n |-> 0])
               /\ op' = [op EXCEPT !.pc = "poll_reg", !.dir = "out"]
    /\ elapsed' = 0
    /\ obs' = NoObs
    /\ UNCHANGED <<call, allocVars, istr, wakerVars, buf, nops>>

\* Channel::read up to its first poll: activate_rx, count = 0, t0.
ReadBegin ==
    /\ op.pc = "read_begin"
    /\ epr' = activate_rx(epr, op.ch.index)
    /\ log' = Append(log, [ev |-> "IN", stage |-> op.stage, len |-> op.xlen,
                           armed |-> (epr'[op.ch.index].stat_rx = VALID),
                           res |-> "Pending", n |-> 0])
    /\ op' = [op EXCEPT !.pc = "poll_reg", !.dir = "in", !.count = 0]
    /\ elapsed' = 0
    /\ obs' = NoObs
    /\ UNCHANGED <<call, allocVars, btable, hwVars, wakerVars, buf, nops>>

\* A poll that reads the status without leaving its waker anywhere.
PollRegister_no_waker ==
    /\ op.pc = "poll_reg"
    /\ op' = [op EXCEPT !.pc = "poll_check"]
    /\ UNCHANGED <<call, allocVars, regVars, hwVars, wakerVars,
                   buf, elapsed, log, obs, nops>>

\* A poll begins: the waker goes into the direction's wake target.
PollRegister ==
    /\ op.pc = "poll_reg"
    /\ IF op.dir = "out"
       THEN /\ out_wakers' = out_wakers \cup {op.ch.index}
            /\ UNCHANGED in_wakers
       ELSE /\ in_wakers' = in_wakers \cup {op.ch.index}
            /\ UNCHANGED out_wakers
    /\ op' = [op EXCEPT !.pc = "poll_check"]
    /\ UNCHANGED <<call, allocVars, regVars, hwVars, bus_waker, task_woken,
                   buf, elapsed, log, obs, nops>>

\* The transfer of the current stage has returned `res` with n bytes: the
\* `?` of control_in / control_out, and the value the call returns.
StageEnd(res, n) ==
    LET nx == NextStage(op.kind, op.stage, res, op.len)
        data_count == IF op.kind = "control_in" /\ op.stage = "data"
                      THEN n ELSE op.data_count
        value == IF op.kind = "control_in" THEN data_count
                 ELSE IF op.kind = "control_out" THEN op.len
                 ELSE n
    IN /\ op' = [op EXCEPT !.pc = nx.pc, !.stage = nx.stage, !.xlen = nx.xlen,
                           !.data_count = data_count,
                           !.count = IF op.dir = "in" /\ res = "Ok" THEN n ELSE op.count,
                           !.result = IF nx.pc # "done" THEN NoResult
                                      ELSE IF res = "Ok"
                                      THEN [ok |-> TRUE, n |-> value, err |-> "None"]
                                      ELSE [ok |-> FALSE, n |-> 0, err |-> res]]
       /\ log' = [log EXCEPT ![Len(log)].res = res, ![Len(log)].n = n]

\* The rest of a poll of Channel::write.
PollCheckWrite ==
    /\ op.pc = "poll_check"
    /\ op.dir = "out"
    /\ LET i == op.ch.index
           stat == epr[i].stat_tx
           class == write_poll(istr.dcon_stat, elapsed, stat)
       IN /\ obs' = [dir |-> "out", dcon_stat |-> istr.dcon_stat, elapsed |-> elapsed,
                     stat |-> stat, rx_len |-> 0, count |-> 0, class |-> class]
          /\ epr' = IF class \in {"Disconnected", "Timeout"} THEN disable_tx(epr, i) ELSE epr
          /\ IF class = "Pending"
             THEN /\ op' = [op EXCEPT !.pc = "pending"]
                  /\ UNCHANGED log
             ELSE StageEnd(class, IF class = "Ok" THEN op.xlen ELSE 0)
    /\ UNCHANGED <<call, allocVars, btable, hwVars, wakerVars, buf, elapsed, nops>>

\* A read_data that copies whatever the descriptor says was received.
read_data_unchecked(bt, mem, c, room) ==
    LET rx_len == BitAnd(read_out_len(bt, c.index), 1023)
        rd == EndpointBuffer_read(mem, c.buf_in, rx_len)
    IN IF ~c.buf_in.some \/ rd.panic
       THEN [res |-> "Panic", n |-> rx_len, data |-> <<>>]
       ELSE [res |-> "Ok", n |-> rx_len, data |-> rd.data]

\* Channel::read_data into buf[count..]: the received length out of the
\* descriptor, BufferOverflow when it exceeds what is left of the buffer.
read_data(bt, mem, c, room) ==
    LET rx_len == BitAnd(read_out_len(bt, c.index), 1023)
        rd == EndpointBuffer_read(mem, c.buf_in, rx_len)
    IN IF rx_len > room
       THEN [res |-> "BufferOverflow", n |-> rx_len, data |-> <<>>]
       ELSE IF ~c.buf_in.some \/ rd.panic
       THEN [res |-> "Panic", n |-> rx_len, data |-> <<>>]
       ELSE [res |-> "Ok", n |-> rx_len, data |-> rd.data]

\* The rest of a poll of Channel::read.
PollCheckRead ==
    /\ op.pc = "poll_check"
    /\ op.dir = "in"
    /\ LET i == op.ch.index
           stat == epr[i].stat_rx
           class == read_poll(istr.dcon_stat, elapsed, stat)
           r == read_data(btable, usbram, op.ch, op.xlen - op.count)
           count == op.count + r.n
       IN /\ obs' = [dir |-> "in", dcon_stat |-> istr.dcon_stat, elapsed |-> elapsed,
                     stat |-> stat, rx_len |-> IF class = "Data" THEN r.n ELSE 0,
                     count |-> op.count, class |-> class]
          /\ CASE class = "Pending" ->
                    /\ op' = [op EXCEPT !.pc = "pending"]
                    /\ UNCHANGED <<epr, log, buf>>
               [] class \in {"Disconnected", "Timeout"} ->
                    /\ epr' = disable_rx(epr, i)
                    /\ StageEnd(class, 0)
                    /\ UNCHANGED buf
               [] class = "Stall" ->
                    /\ StageEnd(class, 0)
                    /\ UNCHANGED <<epr, buf>>
               [] class = "Data" /\ r.res = "Panic" ->
                    /\ op' = [op EXCEPT !.pc = "panicked"]
                    /\ UNCHANGED <<epr, log, buf>>
               [] class = "Data" /\ r.res = "BufferOverflow" ->
                    /\ StageEnd(r.res, 0)
                    /\ UNCHANGED <<epr, buf>>
               [] class = "Data" /\ r.res = "Ok" ->
                    /\ buf' = [k \in 1 .. Len(buf) |->
                                 IF k > op.count /\ k <= count
                                 THEN r.data[k - op.count] ELSE buf[k]]
                    /\ IF read_done(count, op.xlen, r.n, op.ch.max_packet_size_in)
                       THEN /\ StageEnd("Ok", count)
                            /\ UNCHANGED epr
                       ELSE /\ epr' = activate_rx(epr, i)
                            /\ op' = [op EXCEPT !.pc = "pending", !.count = count]
                            /\ UNCHANGED log
    /\ UNCHANGED <<call, allocVars, btable, hwVars, wakerVars, elapsed, nops>>

\* The executor polls the task again: it was woken while pending.
PollWake ==
    /\ op.pc = "pending"
    /\ task_woken
    /\ task_woken' = FALSE
    /\ op' = [op EXCEPT !.pc = "poll_reg"]
    /\ UNCHANGED <<call, allocVars, regVars, hwVars, in_wakers, out_wakers, bus_waker,
                   buf, elapsed, log, obs, nops>>

\* The task is woken by something other than this driver's interrupt.
SpuriousWake ==
    /\ op.pc = "pending"
    /\ ~task_woken
    /\ task_woken' = TRUE
    /\ UNCHANGED <<call, allocVars, regVars, hwVars, in_wakers, out_wakers, bus_waker, opVars>>

\* Time passes while a transfer is in flight (counted up to the deadline's
\* first tick past timeout_ms).
Tick ==
    /\ op.pc \in {"poll_reg", "pending"}
    /\ elapsed <= timeout_ms
    /\ elapsed' = elapsed + TickMs
    /\ UNCHANGED <<call, allocVars, regVars, hwVars, wakerVars, op, buf, log, obs, nops>>

\* ------------------------------------------------- the peripheral, the bus

\* ISTR.CTR: some endpoint register has a transaction-complete flag set.
istr_ctr ==
    \E i \in Slots : epr[i].ctr_rx \/ epr[i].ctr_tx

\* The bytes a receive descriptor allows the peripheral to store, decoded
\* from the block-size and block-count bits calc_receive_len_bits encodes.
rx_capacity(bt, index) ==
    LET hi == bt[index].rx.hi
        num_block == (hi \div 1024) % 32
    IN IF hi >= 32768 THEN 32 * (num_block + 1) ELSE 2 * num_block

\* waker.wake(): the waker is taken out of its slot and the task is woken.
Wake(held) ==
    task_woken' = (task_woken \/ held)

\* A handler that clears both completion flags whatever it read.
on_interrupt_ctr_image_clear_both(e) ==
    [invariant(e) EXCEPT !.ctr_rx = FALSE, !.ctr_tx = FALSE,
                         !.err_rx = IF e.err_rx THEN FALSE ELSE e.err_rx,
                         !.err_tx = IF e.err_tx THEN FALSE ELSE e.err_tx]

\* on_interrupt, transaction-complete branch: the image written for a
\* register read as e.
on_interrupt_ctr_image(e) ==
    [invariant(e) EXCEPT !.ctr_rx = ~e.ctr_rx, !.ctr_tx = ~e.ctr_tx,
                         !.err_rx = IF e.err_rx THEN FALSE ELSE e.err_rx,
                         !.err_tx = IF e.err_tx THEN FALSE ELSE e.err_tx]

\* An error branch that writes the status fields it read.
on_interrupt_err_image_status_as_read(e) ==
    [invariant(e) EXCEPT !.stat_rx = e.stat_rx, !.stat_tx = e.stat_tx]

\* on_interrupt, error branch: the image written for a register read as e;
\* the status fields it sets are those of the invariant image.
on_interrupt_err_image(e) ==
    [invariant(e) EXCEPT !.stat_rx = invariant(e).stat_rx,
                         !.stat_tx = invariant(e).stat_tx]

\* USBHostInterruptHandler::on_interrupt, run to completion on one read of ISTR.
OnInterrupt ==
    /\ istr.reset \/ istr_ctr \/ istr.err
    /\ LET index == istr.ep_id
           e == epr[index]
           rx_ready == e.ctr_rx
           tx_ready == e.ctr_tx
           epr_value == on_interrupt_ctr_image(e)
           epr1 == IF istr_ctr THEN [epr EXCEPT ![index] = EprWrite(e, epr_value)] ELSE epr
           epr2 == IF istr.err
                   THEN [epr1 EXCEPT ![index] =
                            EprWrite(epr1[index], on_interrupt_err_image(epr1[index]))]
                   ELSE epr1
           wake_bus == istr.reset /\ bus_waker
           wake_in == istr_ctr /\ rx_ready /\ index \in in_wakers
           wake_out == istr_ctr /\ tx_ready /\ index \in out_wakers
       IN /\ istr' = [istr EXCEPT !.reset = FALSE, !.err = FALSE]
          /\ epr' = epr2
          /\ bus_waker' = (bus_waker /\ ~istr.reset)
          /\ in_wakers' = IF istr_ctr /\ rx_ready THEN in_wakers \ {index} ELSE in_wakers
          /\ out_wakers' = IF istr_ctr /\ tx_ready THEN out_wakers \ {index} ELSE out_wakers
          /\ Wake(wake_bus \/ wake_in \/ wake_out)
    /\ UNCHANGED <<call, allocVars, btable, usbram, opVars>>

\* The device acknowledged the OUT (or SETUP) packet of slot i.
HwTxDone(i) ==
    /\ istr.dcon_stat
    /\ epr[i].stat_tx = VALID
    /\ epr' = [epr EXCEPT ![i].stat_tx = DISABLED, ![i].ctr_tx = TRUE, ![i].setup = FALSE]
    /\ istr' = [istr EXCEPT !.ep_id = i]
    /\ UNCHANGED <<call, allocVars, btable, usbram, wakerVars, opVars>>

\* The device answered the packet of slot i with NAK (dir "tx" or "rx").
HwNak(i, dir) ==
    /\ istr.dcon_stat
    /\ IF dir = "tx"
       THEN /\ epr[i].stat_tx = VALID
            /\ epr' = [epr EXCEPT ![i].stat_tx = NAK]
       ELSE /\ epr[i].stat_rx = VALID
            /\ epr' = [epr EXCEPT ![i].stat_rx = NAK]
    /\ UNCHANGED <<call, allocVars, btable, hwVars, wakerVars, opVars>>

\* The device answered the packet of slot i with STALL.
HwStall(i, dir) ==
    /\ istr.dcon_stat
    /\ IF dir = "tx"
       THEN /\ epr[i].stat_tx = VALID
            /\ epr' = [epr EXCEPT ![i].stat_tx = STALL, ![i].ctr_tx = TRUE]
       ELSE /\ epr[i].stat_rx = VALID
            /\ epr' = [epr EXCEPT ![i].stat_rx = STALL, ![i].ctr_rx = TRUE]
    /\ istr' = [istr EXCEPT !.ep_id = i]
    /\ UNCHANGED <<call, allocVars, btable, usbram, wakerVars, opVars>>

\* The device sent a packet of n bytes for the IN token of slot i: the
\* peripheral stores it at the descriptor's address and the count in the
\* descriptor's low ten length bits.
HwRxDone(i, n) ==
    /\ istr.dcon_stat
    /\ epr[i].stat_rx = VALID
    /\ n <= rx_capacity(btable, i)
    /\ LET base == btable[i].rx.lo
           touched == {base + k : k \in 0 .. (n - 1)}
           data == DevData(n)
       IN usbram' = [a \in DOMAIN usbram \cup touched |->
                        IF a \in touched THEN data[a - base + 1] ELSE usbram[a]]
    /\ btable' = [btable EXCEPT ![i].rx.hi = (btable[i].rx.hi \div 1024) * 1024 + n]
    /\ epr' = [epr EXCEPT ![i].stat_rx = DISABLED, ![i].ctr_rx = TRUE]
    /\ istr' = [istr EXCEPT !.ep_id = i]
    /\ UNCHANGED <<call, allocVars, wakerVars, opVars>>

\* The device is unplugged or plugged in while a call is in progress:
\* DCON_STAT follows, ISTR.RESET is set.
HwPlug ==
    /\ InFlight
    /\ istr' = [istr EXCEPT !.dcon_stat = ~istr.dcon_stat, !.reset = TRUE]
    /\ UNCHANGED <<call, allocVars, regVars, usbram, wakerVars, opVars>>

NextXfer ==
    \/ \E c \in channels, kind \in {"control_in", "control_out", "request_in", "request_out"},
          len \in InBufLens \cup OutLens : StartOp(c, kind, len)
    \/ ControlSetupFlag
    \/ WriteBegin
    \/ ReadBegin
    \/ PollRegister
    \/ PollCheckWrite
    \/ PollCheckRead
    \/ PollWake
    \/ SpuriousWake
    \/ Tick
    \/ OnInterrupt
    \/ \E i \in Slots : HwTxDone(i)
    \/ \E i \in Slots, dir \in {"tx", "rx"} : HwNak(i, dir)
    \/ \E i \in Slots, dir \in {"tx", "rx"} : HwStall(i, dir)
    \/ \E i \in Slots, n \in RxLens : HwRxDone(i, n)
    \/ HwPlug

SpecXfer == InitXfer /\ [][NextXfer]_vars

\* The executor runs a task that is ready, a pending interrupt is served,
\* and time passes.  Nothing obliges the device to answer, and nothing
\* obliges anything else to wake the task.
FairSpecXfer ==
    /\ SpecXfer
    /\ WF_vars(ControlSetupFlag)
    /\ WF_vars(WriteBegin)
    /\ WF_vars(ReadBegin)
    /\ WF_vars(PollRegister)
    /\ WF_vars(PollCheckWrite)
    /\ WF_vars(PollCheckRead)
    /\ WF_vars(PollWake)
    /\ WF_vars(OnInterrupt)
    /\ WF_vars(Tick)

\* ------------------------------------------------------ claims: allocation

RangesDisjoint(r1, r2) ==
    \/ r1[1] + r1[2] <= r2[1]
    \/ r2[1] + r2[2] <= r1[1]

\* C1: any two ranges alloc_channel_mem has returned are disjoint, a request
\* whose free offset + length exceeds USBRAM_SIZE is refused (so every
\* returned range ends within the window), and only such a request is
\* refused (an exact fit succeeds).
C1_RangesDisjointAndBounded ==
    /\ \A i, j \in 1 .. Len(granted) : i < j => RangesDisjoint(granted[i], granted[j])
    /\ \A i \in 1 .. Len(granted) : granted[i][1] + granted[i][2] <= USBRAM_SIZE
    /\ alloc_ret.denied # <<>> => alloc_ret.denied[1] + alloc_ret.denied[2] > USBRAM_SIZE

\* The lowest clear bit of a bitmap above bit 0.
LowestClearAboveZero(p) ==
    CHOOSE i \in 1 .. 32 : ~TestBit(p, i) /\ \A k \in 1 .. (i - 1) : TestBit(p, k)

\* C2: a non-control alloc_channel call that gets a slot gets the lowest
\* clear bit of the bitmap above bit 0, which is never 0 and never the slot
\* of a channel alive at the call (calls made back to back from the start
\* get 1, 2, ...); no two live non-control channels share a slot; and the
\* call fails with OutOfChannels exactly when bits 1..7 are all set.
C2_IndexAllocation ==
    /\ (alloc_ret.T \notin {"None", "Control"} /\ alloc_ret.status # "OutOfChannels")
          => /\ alloc_ret.index = LowestClearAboveZero(alloc_ret.pipes_before)
             /\ alloc_ret.index \in 1 .. (USB_MAX_PIPES - 1)
             /\ alloc_ret.index \notin alloc_ret.held_before
             /\ TestBit(ALLOCATED_PIPES, alloc_ret.index)
             /\ (nother = 0 => alloc_ret.index = ncalls)
    /\ \A c1, c2 \in channels : (c1.index = c2.index /\ c1.index # 0) => c1 = c2
    /\ alloc_ret.T \notin {"None", "Control"}
          => (alloc_ret.status = "OutOfChannels"
                <=> \A i \in 1 .. (USB_MAX_PIPES - 1) : TestBit(alloc_ret.pipes_before, i))
    /\ alloc_ret.T = "Control" => alloc_ret.status # "OutOfChannels"

\* Slots 1..7 are all taken, one of their channels has been dropped, and a
\* further non-control call has failed with OutOfChannels.
C2_Witness ==
    /\ alloc_ret.status = "OutOfChannels"
    /\ ndrops = 1
    /\ Cardinality({c.index : c \in channels}) >= 2

\* C3: a bit of ALLOCATED_PIPES is set if and only if a live Channel owns
\* that slot.
C3_BitmapIffLive ==
    \A i \in Slots : TestBit(ALLOCATED_PIPES, i) <=> \E c \in channels : c.index = i

\* ------------------------------------------------------- claims: transfers

\* The last poll of the current transfer found the device connected and the
\* deadline not expired.
ObsLive == obs.dir # "none" /\ obs.dcon_stat /\ obs.elapsed <= timeout_ms

Failed(e) == op.pc = "done" /\ ~op.result.ok /\ op.result.err = e

Succeeded(n) == op.pc = "done" /\ op.result.ok /\ op.result.n = n

\* The packet of the last poll is in the caller's buffer, after the bytes
\* read before it.
PacketCopied ==
    \A k \in 1 .. obs.rx_len : buf[obs.count + k] = DevData(obs.rx_len)[k]

\* C4, as stated: a request_in / request_out polled with its direction
\* DISABLED, the device connected and the deadline not expired succeeds, OUT
\* with the request length, IN with the length read from the descriptor and
\* that packet copied into the caller's buffer.
C4_DisabledMeansSuccess ==
    (op.kind \in {"request_in", "request_out"} /\ ObsLive /\ obs.stat = DISABLED)
        => IF obs.dir = "out"
           THEN Succeeded(op.len)
           ELSE obs.rx_len <= Len(buf) /\ Succeeded(obs.rx_len) /\ PacketCopied

\* C4, as the code has it: OUT succeeds with the request length.  IN reads
\* the received length from the descriptor; a packet longer than what is left
\* of the caller's buffer fails the call with BufferOverflow; otherwise the
\* packet is copied after the bytes read so far, and the call succeeds with
\* the accumulated count when the buffer is full or the packet was shorter
\* than max_packet_size_in, and goes on waiting for another packet if not.
C4_DisabledCompletesPacket ==
    (op.kind \in {"request_in", "request_out"} /\ ObsLive /\ obs.stat = DISABLED)
        => IF obs.dir = "out"
           THEN Succeeded(op.len)
           ELSE IF obs.rx_len > op.len - obs.count
           THEN Failed("BufferOverflow")
           ELSE /\ PacketCopied
                /\ IF \/ obs.count + obs.rx_len = op.len
                      \/ obs.rx_len < op.ch.max_packet_size_in
                   THEN Succeeded(obs.count + obs.rx_len)
                   ELSE /\ InFlight
                        /\ op.count = obs.count + obs.rx_len
                        /\ op.result = NoResult

\* A request_in that took a second packet and returned the sum.
C4_Witness ==
    /\ op.kind = "request_in"
    /\ ObsLive
    /\ obs.stat = DISABLED
    /\ obs.count = 8
    /\ obs.rx_len = 3
    /\ Succeeded(11)

\* C5: a transfer still in NAK or VALID when more than 1000 ms have passed
\* since it began eventually fails with Timeout, its direction DISABLED
\* (unless the device is unplugged first).
C5_TimeoutEventually ==
    (InFlight /\ elapsed > timeout_ms /\ DirStat(epr) \in {NAK, VALID})
        ~> ((Failed("Timeout") /\ DirStat(epr) = DISABLED) \/ ~istr.dcon_stat)

\* C6: a poll that finds dcon_stat clear fails the call with Disconnected and
\* leaves the direction DISABLED, whatever the status field and the deadline.
C6_DisconnectWins ==
    (obs.dir # "none" /\ ~obs.dcon_stat)
        => Failed("Disconnected") /\ obs.class = "Disconnected" /\ DirStat(epr) = DISABLED

\* A disconnect seen past the deadline with the direction in STALL.
C6_Witness ==
    /\ obs.dir # "none"
    /\ ~obs.dcon_stat
    /\ obs.elapsed > timeout_ms
    /\ obs.stat = STALL
    /\ Failed("Disconnected")

LogShape(e) == <<e.ev, e.stage, e.len, e.armed, e.res>>

\* C7: a successful control_in has set the setup flag of slot 0, sent the
\* 8-byte setup packet, read into the caller's buffer and sent 0 bytes, in
\* this order and nothing else, and returns the count of the read.
C7_ControlInOrder ==
    (op.kind = "control_in" /\ op.pc = "done" /\ op.result.ok)
        => /\ Len(log) = 4
           /\ LogShape(log[1]) = <<"setup_flag", "setup", 0, TRUE, "Ok">>
           /\ LogShape(log[2]) = <<"OUT", "setup", SetupPacketLen, TRUE, "Ok">>
           /\ LogShape(log[3]) = <<"IN", "data", op.len, TRUE, "Ok">>
           /\ LogShape(log[4]) = <<"OUT", "status", 0, TRUE, "Ok">>
           /\ op.result.n = log[3].n
           /\ \A k \in 1 .. log[3].n : buf[k] # 0

\* A control_in that returned the 3 bytes the device sent.
C7_Witness ==
    op.kind = "control_in" /\ op.len = 12 /\ Succeeded(3)

Errors == {"Disconnected", "Timeout", "Stall", "BufferOverflow"}

\* C8: in control_in and control_out a stage that failed is the last
\* hardware action of the call, the call has returned that stage's error,
\* every stage before it succeeded, and no stage was begun twice.
C8_StageFailureAborts ==
    (op.kind \in ControlKinds)
        => /\ \A i \in 1 .. Len(log) :
                log[i].res \in Errors
                    => /\ i = Len(log)
                       /\ Failed(log[i].res)
                       /\ \A j \in 1 .. (i - 1) : log[j].res = "Ok"
           /\ \A i, j \in 1 .. Len(log) :
                (i # j /\ log[i].ev # "setup_flag" /\ log[j].ev # "setup_flag")
                    => log[i].stage # log[j].stage
           /\ (op.pc = "done" /\ ~op.result.ok)
                => Len(log) > 0 /\ log[Len(log)].res = op.result.err

\* A control_in whose data stage failed: no status stage follows.
C8_Witness ==
    /\ op.kind = "control_in"
    /\ Failed("BufferOverflow")
    /\ Len(log) = 3
    /\ log[3].stage = "data"

\* The hardware actions a control_out with a payload of len bytes performs.
ControlOutPlan(len) ==
    <<  <<"setup_flag", "setup", 0, TRUE>>, <<"OUT", "setup", SetupPacketLen, TRUE>> >>
    \o (IF len = 0 THEN << >> ELSE << <<"OUT", "data", len, TRUE>> >>)
    \o << <<"IN", "status", 0, TRUE>> >>

\* C9: control_out sets the setup flag and sends the 8-byte setup packet,
\* sends the payload only when it is not empty, then reads zero bytes, and on
\* success has done all of it and returns the payload length.
C9_ControlOutStages ==
    (op.kind = "control_out")
        => /\ Len(log) <= Len(ControlOutPlan(op.len))
           /\ \A i \in 1 .. Len(log) :
                <<log[i].ev, log[i].stage, log[i].len, log[i].armed>> = ControlOutPlan(op.len)[i]
           /\ (op.pc = "done" /\ op.result.ok)
                => /\ Len(log) = Len(ControlOutPlan(op.len))
                   /\ \A i \in 1 .. Len(log) : log[i].res = "Ok"
                   /\ op.result.n = op.len

\* A control_out with an empty payload that succeeded in three actions.
C9_Witness ==
    op.kind = "control_out" /\ op.len = 0 /\ Succeeded(0) /\ Len(log) = 3

\* C10, as stated: a poll that finds the direction in STALL, the device
\* connected and the deadline not expired fails the call with Stall and
\* leaves the direction DISABLED.
C10_StallDisables ==
    (ObsLive /\ obs.stat = STALL)
        => Failed("Stall") /\ DirStat(epr) = DISABLED

\* C10, as the code has it: the call fails with Stall and the direction's
\* status is left as it was, STALL.
C10_StallLeftInPlace ==
    (ObsLive /\ obs.stat = STALL)
        => Failed("Stall") /\ DirStat(epr) = STALL

\* An OUT transfer that failed with Stall.
C10_Witness ==
    ObsLive /\ obs.stat = STALL /\ obs.dir = "out" /\ Failed("Stall")

\* ------------------------------------------------- the receive-length codec

MaxCodecLen == 1030

CodecSlot == 1

CodecAddr == 64

\* calc_receive_len_bits(len) on its own, its count code written to the
\* receive descriptor of a slot as alloc_channel writes it.
CalcReceiveLen(len) ==
    /\ call.fn = "none"
    /\ LET r == calc_receive_len_bits(len)
       IN /\ call' = [fn |-> "calc_receive_len_bits", len |-> len, ret |-> r]
          /\ btable' = IF r.panic THEN btable
                       ELSE write_receive_buffer_descriptor(btable, CodecSlot, CodecAddr, r.bits)
    /\ UNCHANGED <<allocVars, epr, xferVars>>

NextCodec ==
    \E len \in 0 .. MaxCodecLen : CalcReceiveLen(len)

SpecCodec == Init /\ [][NextCodec]_vars

\* C11: for every length L in 2..=1024 calc_receive_len_bits returns a
\* capacity of at least L and a count code that, written to the descriptor
\* and read back, decodes (flag clear: blocks x 2 bytes, flag set:
\* (blocks + 1) x 32 bytes) to exactly that capacity.
C11_CodecRoundTrip ==
    (call.fn = "calc_receive_len_bits" /\ call.len >= 2 /\ call.len <= 1024)
        => /\ ~call.ret.panic
           /\ call.ret.len >= call.len
           /\ BitAnd(read_out_len(btable, CodecSlot), 1023) = 0
           /\ rx_capacity(btable, CodecSlot) = call.ret.len
           /\ btable[CodecSlot].rx.lo = CodecAddr

\* The largest length, encoded with the flag set.
C11_Witness ==
    /\ call.fn = "calc_receive_len_bits"
    /\ call.len = 1024
    /\ read_out_len(btable, CodecSlot) >= 32768
    /\ rx_capacity(btable, CodecSlot) = 1024

\* ----------------------------------------------- claims: packets of a read

\* A step that is the rest of a poll of Channel::read.
ReadPollStep == op.pc = "poll_check" /\ op.dir = "in" /\ op' # op

\* The packet the poll handled is in the caller's buffer directly after the
\* bytes read before it, and no other byte of the buffer has changed.
PacketAppended(n) ==
    /\ Len(buf') = Len(buf)
    /\ \A k \in 1 .. Len(buf) :
          buf'[k] = IF k > op.count /\ k <= op.count + n
                    THEN MemRead(usbram, op.ch.buf_in.addr + (k - op.count) - 1)
                    ELSE buf[k]

\* C12: a poll of an IN transfer that finds a completed packet of n bytes
\* fitting what is left of the caller's buffer stores it directly after the
\* bytes accumulated so far; if the accumulated count then equals the
\* requested length or n < max_packet_size_in the read ends with
\* Ok(accumulated count), otherwise the direction is VALID again and the
\* operation stays suspended with the count kept.
C12_MultiPacketRead ==
    [][(ReadPollStep /\ obs'.class = "Data" /\ obs'.rx_len <= op.xlen - op.count)
        => LET n == obs'.rx_len
               count == op.count + n
           IN /\ PacketAppended(n)
              /\ IF count = op.xlen \/ n < op.ch.max_packet_size_in
                 THEN /\ op'.pc \notin {"pending", "poll_reg", "poll_check"}
                      /\ log'[Len(log')].res = "Ok"
                      /\ log'[Len(log')].n = count
                      /\ op.kind = "request_in"
                            => op'.pc = "done" /\ op'.result.ok /\ op'.result.n = count
                 ELSE /\ op'.pc = "pending"
                      /\ op'.count = count
                      /\ op'.result = NoResult
                      /\ epr'[op.ch.index].stat_rx = VALID
                      /\ log' = log]_vars

\* A request_in for 16 bytes that took two full packets, the second stored
\* after the first.
C12_Witness ==
    /\ op.kind = "request_in"
    /\ op.len = 16
    /\ obs.class = "Data"
    /\ obs.count = 8
    /\ obs.rx_len = 8
    /\ Succeeded(16)
    /\ \A k \in 1 .. 16 : buf[k] = DevData(8)[((k - 1) % 8) + 1]

\* C13: a poll of an IN transfer that finds a completed packet longer than
\* what is left of the caller's buffer fails the transfer with
\* BufferOverflow and leaves the caller's buffer as it was; and no IN
\* transfer that succeeds returns more bytes than the caller's buffer holds.
C13_BufferOverflow ==
    [][/\ (ReadPollStep /\ obs'.class = "Data" /\ obs'.rx_len > op.xlen - op.count)
            => /\ buf' = buf
               /\ op'.pc = "done"
               /\ ~op'.result.ok
               /\ op'.result.err = "BufferOverflow"
               /\ log'[Len(log')].res = "BufferOverflow"
       /\ \A i \in 1 .. Len(log') :
            (log'[i].ev = "IN" /\ log'[i].res = "Ok") => log'[i].n <= log'[i].len
       /\ (op'.kind \in InKinds /\ op'.pc = "done" /\ op'.result.ok)
            => op'.result.n <= Len(buf')]_vars

\* A request_in for 12 bytes whose second full packet did not fit: the
\* first packet stays in the buffer, nothing of the second is copied.
C13_Witness ==
    /\ op.kind = "request_in"
    /\ op.len = 12
    /\ obs.class = "Data"
    /\ obs.count = 8
    /\ obs.rx_len = 8
    /\ Failed("BufferOverflow")
    /\ \A k \in 1 .. 12 : buf[k] = IF k <= 8 THEN DevData(8)[k] ELSE 0

\* ------------------------------------------------------------ bus events

MaxWaits == 2

WaitPcs == {"wait_read", "wait_reg", "wait_pending"}

\* The driver constructed, no channel allocated, a device attached or not.
InitBus ==
    /\ istr \in {[reset |-> FALSE, err |-> FALSE, dcon_stat |-> d,
                  ls_dcon |-> FALSE, ep_id |-> 0] : d \in BOOLEAN}
    /\ usbram = <<>>
    /\ in_wakers = {}
    /\ out_wakers = {}
    /\ bus_waker = FALSE
    /\ task_woken = FALSE
    /\ op = IdleOp
    /\ buf = <<>>
    /\ elapsed = 0
    /\ log = <<>>
    /\ obs = NoObs
    /\ nops = 0
    /\ call = NoCall
    /\ ALLOCATED_PIPES = NewState.pipes
    /\ EP_MEM_FREE = NewState.free
    /\ epr = NewState.epr
    /\ btable = NewState.btable
    /\ channels = NewState.channels
    /\ granted = NewState.granted
    /\ alloc_ret = NewState.ret
    /\ ncalls = 0
    /\ nother = 0
    /\ ndrops = 0

\* A call of wait_for_device_event begins: its future is polled.
StartWait ==
    /\ op.pc \in {"idle", "done"}
    /\ nops < MaxWaits
    /\ op' = [IdleOp EXCEPT !.kind = "wait_for_device_event", !.pc = "wait_read"]
    /\ obs' = NoObs
    /\ nops' = nops + 1
    /\ UNCHANGED <<call, allocVars, regVars, hwVars, wakerVars, buf, elapsed, log>>

\* A poll of wait_for_device_event begins: it reads ISTR.
WaitPollRead ==
    /\ op.pc = "wait_read"
    /\ obs' = [dir |-> "bus", dcon_stat |-> istr.dcon_stat, ls_dcon |-> istr.ls_dcon]
    /\ op' = [op EXCEPT !.pc = "wait_reg"]
    /\ UNCHANGED <<call, allocVars, regVars, hwVars, wakerVars, buf, elapsed, log, nops>>

\* What a poll of wait_for_device_event returns for the ISTR value it read.
wait_poll(dcon_stat, ls_dcon) ==
    IF dcon_stat
    THEN [ready |-> TRUE,
          event |-> [event |-> "Connected", speed |-> IF ls_dcon THEN "Low" ELSE "Full"]]
    ELSE [ready |-> FALSE, event |-> NoResult]

\* The rest of the poll: the waker goes into BUS_WAKER, then the value
\* read before decides between Connected and Pending.
WaitPollRegister ==
    /\ op.pc = "wait_reg"
    /\ bus_waker' = TRUE
    /\ LET r == wait_poll(obs.dcon_stat, obs.ls_dcon)
       IN op' = [op EXCEPT !.pc = IF r.ready THEN "done" ELSE "wait_pending",
                           !.result = r.event]
    /\ UNCHANGED <<call, allocVars, regVars, hwVars, in_wakers, out_wakers, task_woken,
                   buf, elapsed, log, obs, nops>>

\* The executor polls the waiting task again: it was woken.
WaitWake ==
    /\ op.pc = "wait_pending"
    /\ task_woken
    /\ task_woken' = FALSE
    /\ op' = [op EXCEPT !.pc = "wait_read"]
    /\ UNCHANGED <<call, allocVars, regVars, hwVars, in_wakers, out_wakers, bus_waker,
                   buf, elapsed, log, obs, nops>>

\* A device is plugged in (low speed or full speed) or unplugged: DCON_STAT
\* and LS_DCON follow, ISTR.RESET is set.
HwBusEvent(ls) ==
    /\ istr.dcon_stat => ~ls
    /\ istr' = [istr EXCEPT !.dcon_stat = ~istr.dcon_stat, !.ls_dcon = ls, !.reset = TRUE]
    /\ UNCHANGED <<call, allocVars, regVars, usbram, wakerVars, opVars>>

NextBus ==
    \/ StartWait
    \/ WaitPollRead
    \/ WaitPollRegister
    \/ WaitWake
    \/ OnInterrupt
    \/ \E ls \in BOOLEAN : HwBusEvent(ls)

SpecBus == InitBus /\ [][NextBus]_vars

\* The executor runs a task that is ready and a pending interrupt is served;
\* nothing obliges a device to be plugged in or unplugged.
FairSpecBus ==
    /\ SpecBus
    /\ WF_vars(WaitPollRead)
    /\ WF_vars(WaitPollRegister)
    /\ WF_vars(WaitWake)
    /\ WF_vars(OnInterrupt)

Waiting == op.kind = "wait_for_device_event" /\ op.pc \in WaitPcs

\* C14: a poll of wait_for_device_event that reads dcon_stat set completes
\* with Connected, speed Low when ls_dcon is set and Full otherwise; and a
\* wait in progress when a disconnect is signalled completes too (unless a
\* device is plugged in again first).
C14_LearnsBothEvents ==
    /\ [](( /\ op.kind = "wait_for_device_event"
            /\ obs.dir = "bus"
            /\ obs.dcon_stat
            /\ op.pc # "wait_reg" )
            => /\ op.pc = "done"
               /\ op.result = [event |-> "Connected",
                               speed |-> IF obs.ls_dcon THEN "Low" ELSE "Full"])
    /\ (Waiting /\ ~istr.dcon_stat /\ istr.reset) ~> (op.pc = "done" \/ istr.dcon_stat)

\* --------------------------------------- the interrupt handler, step by step

IrqSlot == 2

\* The values the handler's slot register can hold when the interrupt fires.
IrqRegisters ==
    {[EprReset EXCEPT !.stat_rx = sr, !.stat_tx = st, !.dtog_rx = dr, !.dtog_tx = dt,
                      !.ctr_rx = cr, !.ctr_tx = ct, !.err_rx = er, !.err_tx = et,
                      !.ea = IrqSlot] :
        sr \in {DISABLED, STALL, NAK, VALID}, st \in {DISABLED, STALL, NAK, VALID},
        dr \in BOOLEAN, dt \in BOOLEAN, cr \in BOOLEAN, ct \in BOOLEAN,
        er \in BOOLEAN, et \in BOOLEAN}

\* An interrupt is pending for IrqSlot; every wake target holds a waker.
InitIrq ==
    /\ istr \in {[reset |-> r, err |-> e, dcon_stat |-> TRUE, ls_dcon |-> FALSE,
                  ep_id |-> IrqSlot] : r \in BOOLEAN, e \in BOOLEAN}
    /\ epr \in {[NewState.epr EXCEPT ![IrqSlot] = v] : v \in IrqRegisters}
    /\ istr.reset \/ istr_ctr \/ istr.err
    /\ usbram = <<>>
    /\ in_wakers = {IrqSlot}
    /\ out_wakers = {IrqSlot}
    /\ bus_waker = TRUE
    /\ task_woken = FALSE
    /\ op = IdleOp
    /\ buf = <<>>
    /\ elapsed = 0
    /\ log = <<>>
    /\ obs = NoObs
    /\ nops = 0
    /\ call = NoCall
    /\ ALLOCATED_PIPES = NewState.pipes
    /\ EP_MEM_FREE = NewState.free
    /\ btable = NewState.btable
    /\ channels = NewState.channels
    /\ granted = NewState.granted
    /\ alloc_ret = NewState.ret
    /\ ncalls = 0
    /\ nother = 0
    /\ ndrops = 0

\* on_interrupt up to its read of the slot's register: ISTR is read, the
\* reset branch clears RESET and wakes the bus target, and in the
\* transaction-complete branch the register of slot ep_id is read.
IrqRead ==
    /\ call.fn = "none"
    /\ istr.reset \/ istr_ctr \/ istr.err
    /\ call' = [fn |-> "on_interrupt", pc |-> "read",
                reset |-> istr.reset, ctr |-> istr_ctr, err |-> istr.err,
                index |-> istr.ep_id, e |-> epr[istr.ep_id]]
    /\ istr' = [istr EXCEPT !.reset = FALSE]
    /\ bus_waker' = (bus_waker /\ ~istr.reset)
    /\ Wake(istr.reset /\ bus_waker)
    /\ UNCHANGED <<allocVars, regVars, usbram, in_wakers, out_wakers, opVars>>

\* A transaction of the slot completes while the code is between its read of
\* the register and its write: the peripheral raises the completion flag of the
\* direction and takes it to DISABLED.
HwCompletes(dir) ==
    /\ call.fn # "none"
    /\ call.pc = "read"
    /\ IF dir = "rx"
       THEN /\ epr[IrqSlot].stat_rx = VALID
            /\ epr' = [epr EXCEPT ![IrqSlot].stat_rx = DISABLED, ![IrqSlot].ctr_rx = TRUE]
       ELSE /\ epr[IrqSlot].stat_tx = VALID
            /\ epr' = [epr EXCEPT ![IrqSlot].stat_tx = DISABLED, ![IrqSlot].ctr_tx = TRUE]
    /\ UNCHANGED <<call, allocVars, btable, hwVars, wakerVars, opVars>>

\* The rest of on_interrupt: the write of the transaction-complete branch
\* and its wakes, then the error branch.
IrqWrite ==
    /\ call.fn = "on_interrupt"
    /\ call.pc = "read"
    /\ LET index == call.index
           epr1 == IF call.ctr
                   THEN [epr EXCEPT ![index] =
                            EprWrite(epr[index], on_interrupt_ctr_image(call.e))]
                   ELSE epr
           epr2 == IF call.err
                   THEN [epr1 EXCEPT ![index] =
                            EprWrite(epr1[index], on_interrupt_err_image(epr1[index]))]
                   ELSE epr1
           rx_ready == call.ctr /\ call.e.ctr_rx
           tx_ready == call.ctr /\ call.e.ctr_tx
       IN /\ epr' = epr2
          /\ in_wakers' = IF rx_ready THEN in_wakers \ {index} ELSE in_wakers
          /\ out_wakers' = IF tx_ready THEN out_wakers \ {index} ELSE out_wakers
          /\ Wake((rx_ready /\ index \in in_wakers) \/ (tx_ready /\ index \in out_wakers))
    /\ istr' = [istr EXCEPT !.err = istr.err /\ ~call.err]
    /\ call' = [call EXCEPT !.pc = "done"]
    /\ UNCHANGED <<allocVars, btable, usbram, bus_waker, opVars>>

NextIrq ==
    \/ IrqRead
    \/ \E dir \in {"rx", "tx"} : HwCompletes(dir)
    \/ IrqWrite

SpecIrq == InitIrq /\ [][NextIrq]_vars

\* The step in which the handler writes the slot's register.
IrqWriteStep == call.fn = "on_interrupt" /\ call.pc = "read" /\ call'.pc = "done"

\* C15: a handler that read the transaction-complete flag set clears those
\* completion bits of the indicated slot that it read as set and no other
\* (a bit the peripheral set after the read stays set), and takes the waker
\* out of the slot's IN target iff it read ctr_rx set, out of the OUT target
\* iff it read ctr_tx set; the task is woken iff one of them was taken.
C15_ClearsWhatItRead ==
    [][(IrqWriteStep /\ call.ctr)
        => /\ epr'[call.index].ctr_rx = (epr[call.index].ctr_rx /\ ~call.e.ctr_rx)
           /\ epr'[call.index].ctr_tx = (epr[call.index].ctr_tx /\ ~call.e.ctr_tx)
           /\ \A i \in Slots \ {call.index} : epr'[i] = epr[i]
           /\ in_wakers' = (IF call.e.ctr_rx THEN in_wakers \ {call.index} ELSE in_wakers)
           /\ out_wakers' = (IF call.e.ctr_tx THEN out_wakers \ {call.index} ELSE out_wakers)
           /\ task_woken' = (task_woken \/ call.e.ctr_rx \/ call.e.ctr_tx)]_vars

\* The handler read ctr_rx set and ctr_tx clear, and the OUT transaction
\* completed before its write: ctr_rx is cleared and the IN target woken,
\* ctr_tx is left set and the OUT target keeps its waker.
C15_Witness ==
    /\ call.fn = "on_interrupt"
    /\ call.pc = "done"
    /\ call.ctr
    /\ call.e.ctr_rx
    /\ ~call.e.ctr_tx
    /\ ~epr[IrqSlot].ctr_rx
    /\ epr[IrqSlot].ctr_tx
    /\ IrqSlot \notin in_wakers
    /\ IrqSlot \in out_wakers
    /\ task_woken

\* A step of the handler.
IrqStep == call' # call /\ call'.fn = "on_interrupt"

StatFns == {"activate_rx", "activate_tx", "disable_rx", "disable_tx"}

\* A channel on IrqSlot whose register holds any value; nothing is pending.
InitStat ==
    /\ istr = [reset |-> FALSE, err |-> FALSE, dcon_stat |-> TRUE, ls_dcon |-> FALSE,
               ep_id |-> 0]
    /\ epr \in {[NewState.epr EXCEPT ![IrqSlot] = v] : v \in IrqRegisters}
    /\ usbram = <<>>
    /\ in_wakers = {}
    /\ out_wakers = {}
    /\ bus_waker = FALSE
    /\ task_woken = FALSE
    /\ op = IdleOp
    /\ buf = <<>>
    /\ elapsed = 0
    /\ log = <<>>
    /\ obs = NoObs
    /\ nops = 0
    /\ call = NoCall
    /\ ALLOCATED_PIPES = NewState.pipes
    /\ EP_MEM_FREE = NewState.free
    /\ btable = NewState.btable
    /\ channels = NewState.channels
    /\ granted = NewState.granted
    /\ alloc_ret = NewState.ret
    /\ ncalls = 0
    /\ nother = 0
    /\ ndrops = 0

\* activate_rx / activate_tx / disable_rx / disable_tx: the read of the register.
StatRead(fn) ==
    /\ call.fn = "none"
    /\ call' = [fn |-> fn, pc |-> "read", index |-> IrqSlot, e |-> epr[IrqSlot]]
    /\ UNCHANGED <<allocVars, regVars, xferVars>>

\* The write of the image built from what was read.
StatWrite ==
    /\ call.fn \in StatFns
    /\ call.pc = "read"
    /\ epr' = [epr EXCEPT ![call.index] = EprWrite(epr[call.index], stat_image(call.fn, call.e))]
    /\ call' = [call EXCEPT !.pc = "done"]
    /\ UNCHANGED <<allocVars, btable, xferVars>>

NextStat ==
    \/ \E fn \in StatFns : StatRead(fn)
    \/ \E dir \in {"rx", "tx"} : HwCompletes(dir)
    \/ StatWrite

SpecStat == InitStat /\ [][NextStat]_vars

StatWriteStep == call.fn \in StatFns /\ call.pc = "read" /\ call'.pc = "done"

\* C17: when the register is at the write what it was at the read,
\* activate_rx / activate_tx leave their direction VALID and disable_rx /
\* disable_tx leave it DISABLED, from any of the four status values; and
\* whatever happened in between, the write leaves the other direction's
\* status, both toggle bits and both completion flags as they were.
C17_StatToggles ==
    [][StatWriteStep
        => LET i == call.index
               rx == call.fn \in {"activate_rx", "disable_rx"}
               target == IF call.fn \in {"activate_rx", "activate_tx"} THEN VALID ELSE DISABLED
           IN /\ epr[i] = call.e
                   => (IF rx THEN epr'[i].stat_rx ELSE epr'[i].stat_tx) = target
              /\ (IF rx THEN epr'[i].stat_tx = epr[i].stat_tx
                        ELSE epr'[i].stat_rx = epr[i].stat_rx)
              /\ epr'[i].dtog_rx = epr[i].dtog_rx
              /\ epr'[i].dtog_tx = epr[i].dtog_tx
              /\ epr'[i].ctr_rx = epr[i].ctr_rx
              /\ epr'[i].ctr_tx = epr[i].ctr_tx
              /\ \A j \in Slots \ {i} : epr'[j] = epr[j]]_vars

\* activate_rx from STALL: the direction is VALID, the other direction still
\* in NAK, a toggle bit and a completion flag still set.
C17_Witness ==
    /\ call.fn = "activate_rx"
    /\ call.pc = "done"
    /\ call.e.stat_rx = STALL
    /\ epr[IrqSlot].stat_rx = VALID
    /\ epr[IrqSlot].stat_tx = NAK
    /\ epr[IrqSlot].dtog_tx
    /\ epr[IrqSlot].ctr_rx

\* ------------------------------------------------- retargeting on its own

MaxRetargets == 2

RetargetAddrs == {2, 5}

EndpointTypes == {"Control", "Bulk", "Interrupt", "Isochronous"}

RetargetEndpoint == <<"Bulk", "InOut", 8>>

\* A Bulk InOut channel has been allocated; its register holds any status,
\* toggle, completion and error bits.
InitRetarget ==
    LET st == alloc_channel(NewState, RetargetEndpoint[1], RetargetEndpoint[2], 1,
                            RetargetEndpoint[3])
    IN /\ XferIdle
       /\ ALLOCATED_PIPES = st.pipes
       /\ EP_MEM_FREE = st.free
       /\ epr \in {[st.epr EXCEPT ![st.ret.index] =
                       [v EXCEPT !.devaddr = st.epr[st.ret.index].devaddr,
                                 !.ep_type = st.epr[st.ret.index].ep_type,
                                 !.ea = st.epr[st.ret.index].ea]] : v \in IrqRegisters}
       /\ btable = st.btable
       /\ channels = st.channels
       /\ granted = st.granted
       /\ alloc_ret = st.ret
       /\ ncalls = 1
       /\ nother = 1
       /\ ndrops = 0

\* channel.retarget_channel(addr, endpoint, pre) on a live channel; it
\* returns Ok(()).
Retarget(c, addr, eptype) ==
    /\ c \in channels
    /\ call.fn = "none" \/ (call.fn = "retarget_channel" /\ call.n < MaxRetargets)
    /\ epr' = retarget_channel(epr, c.index, addr, eptype)
    /\ call' = [fn |-> "retarget_channel",
                n |-> IF call.fn = "none" THEN 1 ELSE call.n + 1,
                index |-> c.index, addr |-> addr, ep_type |-> eptype, ret |-> "Ok"]
    /\ UNCHANGED <<allocVars, btable, xferVars>>

NextRetarget ==
    \E c \in channels, addr \in RetargetAddrs, eptype \in EndpointTypes :
        Retarget(c, addr, eptype)

SpecRetarget == InitRetarget /\ [][NextRetarget]_vars

\* C18: a retarget_channel sets the slot's device address, endpoint type
\* and endpoint address and returns Ok; the free memory offset, the bitmap,
\* the channel and its buffers, the descriptors, both status fields, both
\* toggle bits, both completion flags and every other slot's register are
\* as before, the first time and every time after.
C18_RetargetFrame ==
    [][(call'.fn = "retarget_channel" /\ call' # call)
        => LET i == call'.index
           IN /\ call'.ret = "Ok"
              /\ epr'[i].devaddr = call'.addr
              /\ epr'[i].ep_type = convert_type(call'.ep_type)
              /\ epr'[i].ea = i
              /\ epr'[i].stat_rx = epr[i].stat_rx
              /\ epr'[i].stat_tx = epr[i].stat_tx
              /\ epr'[i].dtog_rx = epr[i].dtog_rx
              /\ epr'[i].dtog_tx = epr[i].dtog_tx
              /\ epr'[i].ctr_rx = epr[i].ctr_rx
              /\ epr'[i].ctr_tx = epr[i].ctr_tx
              /\ \A j \in Slots \ {i} : epr'[j] = epr[j]
              /\ EP_MEM_FREE' = EP_MEM_FREE
              /\ ALLOCATED_PIPES' = ALLOCATED_PIPES
              /\ channels' = channels
              /\ btable' = btable]_vars

\* A channel retargeted a second time, to another device and type, with one
\* direction VALID, a toggle bit and a completion flag set.
C18_Witness ==
    /\ call.fn = "retarget_channel"
    /\ call.n = 2
    /\ epr[call.index].devaddr = 5
    /\ epr[call.index].ep_type = "INTERRUPT"
    /\ epr[call.index].stat_rx = VALID
    /\ epr[call.index].stat_tx = STALL
    /\ epr[call.index].dtog_rx
    /\ epr[call.index].ctr_tx
    /\ EP_MEM_FREE = 80

\* ------------------------------------------------- claims: the bus waiter

\* C20: a wait_for_device_event in progress with a device connected returns
\* (unless the device is unplugged), however the interrupt handler
\* interleaves with the poll.
C20_BusWakeNotLost ==
    (Waiting /\ istr.dcon_stat) ~> (op.pc = "done" \/ ~istr.dcon_stat)

\* ------------------------------------------ requests without a setup stage

NextRequests ==
    \/ \E c \in channels, kind \in {"request_in", "request_out"},
          len \in InBufLens \cup OutLens : StartOp(c, kind, len)
    \/ WriteBegin
    \/ ReadBegin
    \/ PollRegister
    \/ PollCheckWrite
    \/ PollCheckRead
    \/ PollWake
    \/ SpuriousWake
    \/ Tick
    \/ OnInterrupt
    \/ \E i \in Slots : HwTxDone(i)
    \/ \E i \in Slots, dir \in {"tx", "rx"} : HwNak(i, dir)
    \/ \E i \in Slots, dir \in {"tx", "rx"} : HwStall(i, dir)
    \/ \E i \in Slots, n \in RxLens : HwRxDone(i, n)
    \/ HwPlug

\* The step the task of the request takes next; its position allows at most
\* one of them.
RequestStep ==
    \/ WriteBegin
    \/ ReadBegin
    \/ PollRegister
    \/ PollCheckWrite
    \/ PollCheckRead
    \/ PollWake

SpecRequests == InitXfer /\ [][NextRequests]_vars

\* The executor runs a task that is ready, a pending interrupt is served,
\* and time passes; the device and other wake-ups are under no obligation.
FairSpecRequests ==
    /\ SpecRequests
    /\ WF_vars(RequestStep)
    /\ WF_vars(OnInterrupt)
    /\ WF_vars(Tick)

\* ---------------------------------------------- claims: wake-ups of transfers

\* The direction of the transfer in flight has been driven to DISABLED or
\* STALL by the peripheral and the task has not yet dealt with it.
CompletionUnseen ==
    /\ op.kind \in {"request_in", "request_out"}
    /\ InFlight
    /\ DirStat(epr) \in {DISABLED, STALL}

C21_FailedCallLeavesState ==
    alloc_ret.status \in {"OutOfChannels", "OutOfSlots"}
        => /\ ALLOCATED_PIPES = alloc_ret.pipes_before
           /\ EP_MEM_FREE = alloc_ret.free_before

\* ------------------------------------------- claims: the receive descriptor

\* C22: the receive descriptor of the slot of every live channel with an IN
\* buffer holds that buffer's address and, in its six high bits, the length code of the
\* buffer's capacity.
C22_DescriptorMatchesBuffer ==
    \A c \in channels :
        c.buf_in.some
            => /\ btable[c.index].rx.lo = c.buf_in.addr
               /\ btable[c.index].rx.hi \div 2 ^ 10
                      = calc_receive_len_bits(c.max_packet_size_in).bits \div 2 ^ 10

\* ------------------------------------------ claims: sixteen-bit arithmetic

\* C23: with the offset and the lengths held in 16 bits, the free offset is
\* never below what the last call found, is a multiple of USBRAM_ALIGN and
\* lies in [64, USBRAM_SIZE], and every range alloc_channel_mem has returned
\* lies between the descriptor table and the end of the memory.
C23_OffsetMonotoneInWindow ==
    /\ alloc_ret.status # "None" => EP_MEM_FREE >= alloc_ret.free_before
    /\ EP_MEM_FREE % USBRAM_ALIGN = 0
    /\ EP_MEM_FREE >= EP_COUNT * 8
    /\ EP_MEM_FREE <= USBRAM_SIZE
    /\ \A i \in 1 .. Len(granted) :
          /\ granted[i][1] >= EP_COUNT * 8
          /\ granted[i][1] + granted[i][2] <= USBRAM_SIZE

\* ------------------------------------------------ claims: buffer capacity

\* C24: no call of request_in, request_out, control_in or control_out ends
\* in a failed assertion of EndpointBuffer::read or EndpointBuffer::write,
\* and the length in the transmit descriptor of a channel's slot is at most
\* the length of the channel's OUT buffer.
C24_NoCapacityPanic ==
    /\ op.pc # "panicked"
    /\ \A c \in channels :
          c.buf_out.some => btable[c.index].tx.hi <= c.buf_out.len

====
